---- MODULE Spec2Model ----
(***************************************************************************)
(* The auto-expansion engine of snippet-app (src-tauri/src/auto_expand.rs  *)
(* and the commands of src-tauri/src/lib.rs): the keyboard listener's      *)
(* callback, the typed buffer, the enabled flag, the snippet map and the   *)
(* four mutexes that guard them, stepped at the granularity of one lock    *)
(* acquisition or one guarded access.                                      *)
(*                                                                         *)
(* Two threads run: the listener thread (thread::spawn in                  *)
(* AutoExpander::start), which handles one key event at a time, and the    *)
(* command thread on which the synchronous #[tauri::command] functions     *)
(* run one at a time.                                                      *)
(*                                                                         *)
(* Strings that the code takes apart (the buffer, the keywords) are        *)
(* sequences of one-character strings; expansions are opaque strings.      *)
(* An Option is a sequence of length at most one: None is <<>>, Some(v)    *)
(* is <<v>>.                                                               *)
(***************************************************************************)
EXTENDS Naturals, Sequences, FiniteSets, TLC

VARIABLES
    buffer,            \* AutoExpander.buffer: the typed characters
    enabled,           \* AutoExpander.enabled: the flag
    snippets,          \* SnippetMap.snippets: keyword -> expansion
    auto_expander,     \* AppState.auto_expander: "Some" or "None"
    locks,             \* holder of each of the four mutexes
    pcL,               \* listener thread: position in the callback
    event,             \* listener: the event being (or last) handled
    keyword,           \* listener: buf.trim().to_string()
    expansion,         \* listener: result of snippet_map.get(&keyword)
    erase_i,           \* listener: iterations of the erase loop done
    emitted,           \* injector calls of the current (or last) event, in order
    handled,           \* how the current (or last) event's handler ended
    buffer_at_enter,   \* history: buffer when the handler was entered
    flag_read,         \* history: the flag as the handler read it
    map_read,          \* history: the map as the handler's lookup found it
    hist,              \* history: characters pushed since the last clear, popped by backspace
    evict,             \* history: "none", "evicted", or "stale" (a pop after an eviction)
    keys_left,         \* character pushes the typist may still cause before the next clear
    pcC,               \* command thread: position in the running command
    call,              \* command thread: the running (or last) command and its arguments
    pending,           \* SnippetMap::update: pairs not yet inserted
    result,            \* return value of the last command
    last_input,        \* history: arguments of the last completed update
    first_enable       \* history: how far the first enable_auto_expansion got:
                       \* "none", "written" (the flag is set) or "returned"

vars == <<buffer, enabled, snippets, auto_expander, locks, pcL, event, keyword,
          expansion, erase_i, emitted, handled, buffer_at_enter, flag_read,
          map_read, hist, evict, keys_left, pcC, call, pending, result, last_input,
          first_enable>>

listenerVars == <<pcL, event, keyword, expansion, erase_i, emitted, handled,
                  buffer_at_enter, flag_read, map_read>>
typingVars == <<hist, evict, keys_left>>
commandVars == <<pcC, call, pending, result, last_input, first_enable>>

----------------------------------------------------------------------------
(* Bounds and the program's constant *)

\* auto_expand.rs:116  if buf.len() > 100
BufferLimit == 100

\* characters the typist may push between two clears of the buffer
MaxTyped == 3

----------------------------------------------------------------------------
(* Inputs *)

\* rdev keys the typist presses: two character keys, the three word
\* boundaries, backspace and one key that key_to_char does not map
Keys == {"KeyB", "KeyR", "Space", "Return", "Tab", "Backspace", "LeftArrow"}

\* rdev events delivered to the callback
Events == [type : {"KeyPress"}, key : Keys] \cup [type : {"KeyRelease"}, key : {"KeyB"}]

\* arguments of update_snippets_map: the empty lists, single entries, two
\* keywords, one keyword twice with different expansions, and lists of
\* different lengths
UpdateInputs ==
    { << << >>, << >> >>,
      << << <<"b", "r", "b">> >>, << "be right back" >> >>,
      << << <<"b">> >>, << "bye" >> >>,
      << << <<"b", "r", "b">>, <<"b">> >>, << "be right back", "bye" >> >>,
      << << <<"b", "r", "b">>, <<"b", "r", "b">> >>, << "be right back", "bye" >> >>,
      << << <<"b">> >>, << >> >>,
      << << >>, << "bye" >> >>,
      << << <<"b", "r", "b">>, <<"b">> >>, << "bye" >> >> }

----------------------------------------------------------------------------
(* Pure helpers *)

None == << >>
Some(v) == << v >>

\* the left arrow taken for a character key
key_to_char_arrows(key) ==
    CASE key = "KeyB" -> Some("b") [] key = "KeyR" -> Some("r")
      [] key = "Minus" -> Some("-") [] key = "LeftArrow" -> Some("<")
      [] OTHER -> None

\* the letter keys appending upper-case letters
key_to_char_upper(key) ==
    CASE key = "KeyB" -> Some("B") [] key = "KeyR" -> Some("R")
      [] key = "Minus" -> Some("-")
      [] OTHER -> None

\* auto_expand.rs:135-177
key_to_char(key) ==
    CASE key = "KeyA" -> Some("a") [] key = "KeyB" -> Some("b")
      [] key = "KeyC" -> Some("c") [] key = "KeyD" -> Some("d")
      [] key = "KeyE" -> Some("e") [] key = "KeyF" -> Some("f")
      [] key = "KeyG" -> Some("g") [] key = "KeyH" -> Some("h")
      [] key = "KeyI" -> Some("i") [] key = "KeyJ" -> Some("j")
      [] key = "KeyK" -> Some("k") [] key = "KeyL" -> Some("l")
      [] key = "KeyM" -> Some("m") [] key = "KeyN" -> Some("n")
      [] key = "KeyO" -> Some("o") [] key = "KeyP" -> Some("p")
      [] key = "KeyQ" -> Some("q") [] key = "KeyR" -> Some("r")
      [] key = "KeyS" -> Some("s") [] key = "KeyT" -> Some("t")
      [] key = "KeyU" -> Some("u") [] key = "KeyV" -> Some("v")
      [] key = "KeyW" -> Some("w") [] key = "KeyX" -> Some("x")
      [] key = "KeyY" -> Some("y") [] key = "KeyZ" -> Some("z")
      [] key = "Num0" -> Some("0") [] key = "Num1" -> Some("1")
      [] key = "Num2" -> Some("2") [] key = "Num3" -> Some("3")
      [] key = "Num4" -> Some("4") [] key = "Num5" -> Some("5")
      [] key = "Num6" -> Some("6") [] key = "Num7" -> Some("7")
      [] key = "Num8" -> Some("8") [] key = "Num9" -> Some("9")
      [] key = "Minus" -> Some("-") [] key = "Equal" -> Some("=")
      [] OTHER -> None

\* the first arm of the callback's match on the key
IsWordBoundary(key) == key \in {"Space", "Return", "Tab"}

\* str::trim: leading and trailing whitespace removed
Whitespace == {" ", "\t", "\n", "\r"}

RECURSIVE TrimStart(_)
TrimStart(s) ==
    IF s # << >> /\ Head(s) \in Whitespace THEN TrimStart(Tail(s)) ELSE s

RECURSIVE TrimEnd(_)
TrimEnd(s) ==
    IF s # << >> /\ s[Len(s)] \in Whitespace
    THEN TrimEnd(SubSeq(s, 1, Len(s) - 1))
    ELSE s

Trim(s) == TrimEnd(TrimStart(s))

\* the first character removed instead of the last
PopFirst(s) == IF s = << >> THEN s ELSE Tail(s)

\* String::pop: the last character removed, if any
Pop(s) == IF s = << >> THEN s ELSE SubSeq(s, 1, Len(s) - 1)

\* HashMap::new
EmptyMap == [k \in {} |-> ""]

\* HashMap::insert: the value of an existing key is overwritten
Insert(m, k, v) == [x \in (DOMAIN m) \cup {k} |-> IF x = k THEN v ELSE m[x]]

\* the stored keywords trimmed before they are compared
GetTrimmedKeys(m, k) ==
    IF \E x \in DOMAIN m : Trim(x) = k
    THEN Some(m[CHOOSE x \in DOMAIN m : Trim(x) = k])
    ELSE None

\* HashMap::get(..).cloned()
Get(m, k) == IF k \in DOMAIN m THEN Some(m[k]) ELSE None

\* keywords.into_iter().zip(texts).collect()
Zip(ks, ts) ==
    LET n == IF Len(ks) < Len(ts) THEN Len(ks) ELSE Len(ts)
    IN  [i \in 1..n |-> <<ks[i], ts[i]>>]

----------------------------------------------------------------------------
(* The mutexes *)

LockNames == {"auto_expander", "enabled", "buffer", "snippets"}
Threads == {"listener", "command"}

\* Mutex::lock returns only when no thread holds the mutex
CanLock(l) == locks[l] = "free"
Locked(l, t) == [locks EXCEPT ![l] = t]
\* the MutexGuard is dropped
Unlocked(l) == [locks EXCEPT ![l] = "free"]

HeldBy(t) == { l \in LockNames : locks[l] = t }

----------------------------------------------------------------------------
(* The state after run() has built the AppState and started the listener *)

NoEvent == [type |-> "None", key |-> "None"]
NoCall == [cmd |-> "none", keywords |-> << >>, texts |-> << >>]

Init ==
    /\ buffer = << >>
    /\ enabled = FALSE
    /\ snippets = EmptyMap
    /\ auto_expander = "Some"
    /\ locks = [l \in LockNames |-> "free"]
    /\ pcL = "listen"
    /\ event = NoEvent
    /\ keyword = << >>
    /\ expansion = None
    /\ erase_i = 0
    /\ emitted = << >>
    /\ handled = "none"
    /\ buffer_at_enter = << >>
    /\ flag_read = FALSE
    /\ map_read = EmptyMap
    /\ hist = << >>
    /\ evict = "none"
    /\ keys_left = MaxTyped
    /\ pcC = "idle"
    /\ call = NoCall
    /\ pending = << >>
    /\ result = "none"
    /\ last_input = << << >>, << >> >>
    /\ first_enable = "none"

----------------------------------------------------------------------------
(* The listener thread: the callback of AutoExpander::start *)

\* the typist presses a character key only while pushes are left
MayPress(e) ==
    (e.type = "KeyPress" /\ ~IsWordBoundary(e.key) /\ e.key # "Backspace"
        /\ key_to_char(e.key) # None) => keys_left > 0

\* rdev calls the callback with the next event
cb_enter(e) ==
    /\ pcL = "listen"
    /\ MayPress(e)
    /\ pcL' = "check_enabled"
    /\ event' = e
    /\ keyword' = << >>
    /\ expansion' = None
    /\ erase_i' = 0
    /\ emitted' = << >>
    /\ handled' = "running"
    /\ buffer_at_enter' = buffer
    /\ flag_read' = FALSE
    /\ map_read' = EmptyMap
    /\ UNCHANGED <<buffer, enabled, snippets, auto_expander, locks>>
    /\ UNCHANGED typingVars
    /\ UNCHANGED commandVars

\* enabled.lock().unwrap() in the if condition
cb_lock_enabled ==
    /\ pcL = "check_enabled"
    /\ CanLock("enabled")
    /\ locks' = Locked("enabled", "listener")
    /\ pcL' = "read_enabled"
    /\ UNCHANGED <<buffer, enabled, snippets, auto_expander>>
    /\ UNCHANGED <<event, keyword, expansion, erase_i, emitted, handled,
                   buffer_at_enter, flag_read, map_read>>
    /\ UNCHANGED typingVars
    /\ UNCHANGED commandVars

\* the check of the flag left out
GatedNever(flag) == FALSE

\* every event dropped, whatever the flag
GatedAlways(flag) == TRUE

\* the test taken the wrong way round
GatedInverted(flag) == flag

\* if !*guard { return; }
Gated(flag) == ~flag

\* the guard of the enabled mutex kept alive to the end of the callback
cb_read_enabled_keeps_guard ==
    /\ pcL = "read_enabled"
    /\ flag_read' = enabled
    /\ locks' = locks
    /\ IF Gated(enabled)
       THEN /\ pcL' = "listen"
            /\ handled' = "dropped"
       ELSE IF event.type # "KeyPress"
       THEN /\ pcL' = "listen"
            /\ handled' = "ignored"
       ELSE /\ pcL' = "lock_buffer"
            /\ handled' = handled
    /\ UNCHANGED <<buffer, enabled, snippets, auto_expander>>
    /\ UNCHANGED <<event, keyword, expansion, erase_i, emitted,
                   buffer_at_enter, map_read>>
    /\ UNCHANGED typingVars
    /\ UNCHANGED commandVars

\* the flag is read and the guard dropped at the end of the condition;
\* then the match on event.event_type
cb_read_enabled ==
    /\ pcL = "read_enabled"
    /\ flag_read' = enabled
    /\ locks' = Unlocked("enabled")
    /\ IF Gated(enabled)
       THEN /\ pcL' = "listen"
            /\ handled' = "dropped"
       ELSE IF event.type # "KeyPress"
       THEN /\ pcL' = "listen"
            /\ handled' = "ignored"
       ELSE /\ pcL' = "lock_buffer"
            /\ handled' = handled
    /\ UNCHANGED <<buffer, enabled, snippets, auto_expander>>
    /\ UNCHANGED <<event, keyword, expansion, erase_i, emitted,
                   buffer_at_enter, map_read>>
    /\ UNCHANGED typingVars
    /\ UNCHANGED commandVars

\* let mut buf = buffer.lock().unwrap();
cb_lock_buffer ==
    /\ pcL = "lock_buffer"
    /\ CanLock("buffer")
    /\ locks' = Locked("buffer", "listener")
    /\ pcL' = "match_key"
    /\ UNCHANGED <<buffer, enabled, snippets, auto_expander>>
    /\ UNCHANGED <<event, keyword, expansion, erase_i, emitted, handled,
                   buffer_at_enter, flag_read, map_read>>
    /\ UNCHANGED typingVars
    /\ UNCHANGED commandVars

\* the bound compared with >= : a buffer of 99 characters loses one too early
PushBoundedOffByOne(buf, ch) ==
    LET pushed == Append(buf, ch)
    IN  IF Len(pushed) >= BufferLimit THEN Tail(pushed) ELSE pushed

\* buf.push(ch); if buf.len() > 100 { buf.remove(0); }
PushBounded(buf, ch) ==
    LET pushed == Append(buf, ch)
    IN  IF Len(pushed) > BufferLimit THEN Tail(pushed) ELSE pushed

\* the default arm: if let Some(ch) = key_to_char(key) { ... }
cb_other_key ==
    /\ pcL = "match_key"
    /\ ~IsWordBoundary(event.key)
    /\ event.key # "Backspace"
    /\ LET ch == key_to_char(event.key)
       IN  IF ch # None
           THEN /\ buffer' = PushBounded(buffer, ch[1])
                /\ handled' = "char"
                /\ hist' = Append(hist, ch[1])
                /\ evict' = IF Len(buffer) + 1 > BufferLimit /\ evict = "none"
                            THEN "evicted" ELSE evict
                /\ keys_left' = keys_left - 1
           ELSE /\ buffer' = buffer
                /\ handled' = "ignored"
                /\ UNCHANGED typingVars
    /\ locks' = Unlocked("buffer")
    /\ pcL' = "listen"
    /\ UNCHANGED <<enabled, snippets, auto_expander>>
    /\ UNCHANGED <<event, keyword, expansion, erase_i, emitted,
                   buffer_at_enter, flag_read, map_read>>
    /\ UNCHANGED commandVars

\* RKey::Backspace => { buf.pop(); }
cb_backspace ==
    /\ pcL = "match_key"
    /\ event.key = "Backspace"
    /\ buffer' = Pop(buffer)
    /\ handled' = "erase_last"
    /\ hist' = Pop(hist)
    /\ evict' = IF evict = "none" THEN "none" ELSE "stale"
    /\ locks' = Unlocked("buffer")
    /\ pcL' = "listen"
    /\ UNCHANGED <<enabled, snippets, auto_expander, keys_left>>
    /\ UNCHANGED <<event, keyword, expansion, erase_i, emitted,
                   buffer_at_enter, flag_read, map_read>>
    /\ UNCHANGED commandVars

\* RKey::Space | RKey::Return | RKey::Tab: let keyword = buf.trim().to_string();
cb_word_boundary ==
    /\ pcL = "match_key"
    /\ IsWordBoundary(event.key)
    /\ keyword' = Trim(buffer)
    /\ pcL' = "get_lock"
    /\ UNCHANGED <<buffer, enabled, snippets, auto_expander, locks>>
    /\ UNCHANGED <<event, expansion, erase_i, emitted, handled,
                   buffer_at_enter, flag_read, map_read>>
    /\ UNCHANGED typingVars
    /\ UNCHANGED commandVars

\* the lookup reading the map without waiting for its mutex
cb_get_lock_unguarded ==
    /\ pcL = "get_lock"
    /\ locks' = Locked("snippets", "listener")
    /\ pcL' = "get_read"
    /\ UNCHANGED <<buffer, enabled, snippets, auto_expander>>
    /\ UNCHANGED <<event, keyword, expansion, erase_i, emitted, handled,
                   buffer_at_enter, flag_read, map_read>>
    /\ UNCHANGED typingVars
    /\ UNCHANGED commandVars

\* SnippetMap::get: self.snippets.lock().unwrap(), the buffer guard still alive
cb_get_lock ==
    /\ pcL = "get_lock"
    /\ CanLock("snippets")
    /\ locks' = Locked("snippets", "listener")
    /\ pcL' = "get_read"
    /\ UNCHANGED <<buffer, enabled, snippets, auto_expander>>
    /\ UNCHANGED <<event, keyword, expansion, erase_i, emitted, handled,
                   buffer_at_enter, flag_read, map_read>>
    /\ UNCHANGED typingVars
    /\ UNCHANGED commandVars

\* the guard of the map mutex never dropped by the lookup
cb_get_read_keeps_guard ==
    /\ pcL = "get_read"
    /\ expansion' = Get(snippets, keyword)
    /\ map_read' = snippets
    /\ locks' = locks
    /\ pcL' = IF expansion' = None THEN "clear" ELSE "enigo_new"
    /\ UNCHANGED <<buffer, enabled, snippets, auto_expander>>
    /\ UNCHANGED <<event, keyword, erase_i, emitted, handled,
                   buffer_at_enter, flag_read>>
    /\ UNCHANGED typingVars
    /\ UNCHANGED commandVars

\* .get(keyword).cloned(), the map guard dropped when get returns;
\* then if let Some(expansion) = ...
cb_get_read ==
    /\ pcL = "get_read"
    /\ expansion' = Get(snippets, keyword)
    /\ map_read' = snippets
    /\ locks' = Unlocked("snippets")
    /\ pcL' = IF expansion' = None THEN "clear" ELSE "enigo_new"
    /\ UNCHANGED <<buffer, enabled, snippets, auto_expander>>
    /\ UNCHANGED <<event, keyword, erase_i, emitted, handled,
                   buffer_at_enter, flag_read>>
    /\ UNCHANGED typingVars
    /\ UNCHANGED commandVars

\* match Enigo::new(&settings): Ok(enigo) => enigo, Err(e) => { ...; return; }
\* The return leaves the closure with the buffer guard dropped and
\* buf.clear() not run.
cb_enigo_new ==
    /\ pcL = "enigo_new"
    /\ \E ok \in BOOLEAN :
          IF ok
          THEN /\ pcL' = "erase"
               /\ handled' = handled
               /\ locks' = locks
          ELSE /\ pcL' = "listen"
               /\ handled' = "abandoned"
               /\ locks' = Unlocked("buffer")
    /\ UNCHANGED <<buffer, enabled, snippets, auto_expander>>
    /\ UNCHANGED <<event, keyword, expansion, erase_i, emitted,
                   buffer_at_enter, flag_read, map_read>>
    /\ UNCHANGED typingVars
    /\ UNCHANGED commandVars

\* one call on the Enigo handle, with its Result
InjectorCall(op, arg, ok) == [op |-> op, arg |-> arg, ok |-> ok]

\* the range taken inclusive: one backspace too many
EraseMoreInclusive(i, kw, log) == i <= Len(kw)

\* the loop left at the first call that fails
EraseMoreUntilFailure(i, kw, log) == i < Len(kw) /\ \A j \in 1..Len(log) : log[j].ok

\* for _ in 0..keyword.len(): the loop runs whatever the earlier calls returned
EraseMore(i, kw, log) == i < Len(kw)

\* enigo.key(Key::Backspace, Direction::Click).ok();
cb_erase ==
    /\ pcL = "erase"
    /\ EraseMore(erase_i, keyword, emitted)
    /\ \E ok \in BOOLEAN :
          emitted' = Append(emitted, InjectorCall("key", "Backspace/Click", ok))
    /\ erase_i' = erase_i + 1
    /\ UNCHANGED <<buffer, enabled, snippets, auto_expander, locks>>
    /\ UNCHANGED <<pcL, event, keyword, expansion, handled,
                   buffer_at_enter, flag_read, map_read>>
    /\ UNCHANGED typingVars
    /\ UNCHANGED commandVars

\* enigo.text(&expansion).ok();
cb_text ==
    /\ pcL = "erase"
    /\ ~EraseMore(erase_i, keyword, emitted)
    /\ \E ok \in BOOLEAN :
          emitted' = Append(emitted, InjectorCall("text", expansion[1], ok))
    /\ pcL' = "clear"
    /\ UNCHANGED <<buffer, enabled, snippets, auto_expander, locks>>
    /\ UNCHANGED <<event, keyword, expansion, erase_i, handled,
                   buffer_at_enter, flag_read, map_read>>
    /\ UNCHANGED typingVars
    /\ UNCHANGED commandVars

\* buf.clear(); and the end of the arm, where the buffer guard is dropped
cb_clear ==
    /\ pcL = "clear"
    /\ buffer' = << >>
    /\ handled' = IF expansion = None THEN "no_match" ELSE "expanded"
    /\ hist' = << >>
    /\ evict' = "none"
    /\ keys_left' = MaxTyped
    /\ locks' = Unlocked("buffer")
    /\ pcL' = "listen"
    /\ UNCHANGED <<enabled, snippets, auto_expander>>
    /\ UNCHANGED <<event, keyword, expansion, erase_i, emitted,
                   buffer_at_enter, flag_read, map_read>>
    /\ UNCHANGED commandVars

Listener ==
    \/ \E e \in Events : cb_enter(e)
    \/ cb_lock_enabled
    \/ cb_read_enabled
    \/ cb_lock_buffer
    \/ cb_other_key
    \/ cb_backspace
    \/ cb_word_boundary
    \/ cb_get_lock
    \/ cb_get_read
    \/ cb_enigo_new
    \/ cb_erase
    \/ cb_text
    \/ cb_clear

----------------------------------------------------------------------------
(* The command thread: the #[tauri::command] functions of lib.rs *)

Call(cmd, ks, ts) == [cmd |-> cmd, keywords |-> ks, texts |-> ts]

\* a command that starts with state.auto_expander.lock() is invoked
InvokeOnExpander(cmd) ==
    /\ pcC = "idle"
    /\ call' = Call(cmd, << >>, << >>)
    /\ result' = "pending"
    /\ pcC' = "lock_expander"
    /\ UNCHANGED <<buffer, enabled, snippets, auto_expander, locks, pending, last_input, first_enable>>
    /\ UNCHANGED listenerVars
    /\ UNCHANGED typingVars

enable_auto_expansion == InvokeOnExpander("enable")

disable_auto_expansion == InvokeOnExpander("disable")

is_auto_expansion_enabled == InvokeOnExpander("is_enabled")

\* the handle used without the test for None
cmd_lock_expander_unchecked ==
    /\ pcC = "lock_expander"
    /\ CanLock("auto_expander")
    /\ locks' = Locked("auto_expander", "command")
    /\ pcC' = IF call.cmd = "is_enabled" THEN "is_enabled_lock" ELSE "set_enabled_lock"
    /\ UNCHANGED <<buffer, enabled, snippets, auto_expander, call, pending, result,
                   last_input, first_enable>>
    /\ UNCHANGED listenerVars
    /\ UNCHANGED typingVars

\* let expander = state.auto_expander.lock().unwrap();
\* if let Some(ref exp) = *expander { ... } else { ... }: without an
\* expander the command returns at once and the guard is dropped
cmd_lock_expander ==
    /\ pcC = "lock_expander"
    /\ CanLock("auto_expander")
    /\ IF auto_expander = "Some"
       THEN /\ locks' = Locked("auto_expander", "command")
            /\ pcC' = IF call.cmd = "is_enabled" THEN "is_enabled_lock" ELSE "set_enabled_lock"
            /\ result' = result
       ELSE /\ locks' = locks
            /\ pcC' = "idle"
            /\ result' = IF call.cmd = "is_enabled" THEN "Ok(false)" ELSE "Err"
    /\ UNCHANGED <<buffer, enabled, snippets, auto_expander, call, pending, last_input, first_enable>>
    /\ UNCHANGED listenerVars
    /\ UNCHANGED typingVars

\* AutoExpander::set_enabled: self.enabled.lock().unwrap(), the expander guard held
set_enabled_lock ==
    /\ pcC = "set_enabled_lock"
    /\ CanLock("enabled")
    /\ locks' = Locked("enabled", "command")
    /\ pcC' = "set_enabled_write"
    /\ UNCHANGED <<buffer, enabled, snippets, auto_expander, call, pending, result, last_input, first_enable>>
    /\ UNCHANGED listenerVars
    /\ UNCHANGED typingVars

\* set_enabled storing true whatever its argument
set_enabled_write_always_true ==
    /\ pcC = "set_enabled_write"
    /\ enabled' = TRUE
    /\ locks' = Unlocked("enabled")
    /\ pcC' = "cmd_return"
    /\ first_enable' = IF call.cmd = "enable" /\ first_enable = "none"
                       THEN "written" ELSE first_enable
    /\ UNCHANGED <<buffer, snippets, auto_expander, call, pending, result, last_input>>
    /\ UNCHANGED listenerVars
    /\ UNCHANGED typingVars

\* set_enabled emptying the buffer as well
set_enabled_write_clears_buffer ==
    /\ pcC = "set_enabled_write"
    /\ enabled' = (call.cmd = "enable")
    /\ buffer' = << >>
    /\ locks' = Unlocked("enabled")
    /\ pcC' = "cmd_return"
    /\ UNCHANGED <<snippets, auto_expander, call, pending, result, last_input, first_enable>>
    /\ UNCHANGED listenerVars
    /\ UNCHANGED typingVars

\* *guard = enabled; the guard is dropped at the end of the statement
set_enabled_write ==
    /\ pcC = "set_enabled_write"
    /\ enabled' = (call.cmd = "enable")
    /\ locks' = Unlocked("enabled")
    /\ pcC' = "cmd_return"
    /\ first_enable' = IF call.cmd = "enable" /\ first_enable = "none"
                       THEN "written" ELSE first_enable
    /\ UNCHANGED <<buffer, snippets, auto_expander, call, pending, result, last_input>>
    /\ UNCHANGED listenerVars
    /\ UNCHANGED typingVars

\* AutoExpander::is_enabled: self.enabled.lock().unwrap(), the expander guard held
is_enabled_lock ==
    /\ pcC = "is_enabled_lock"
    /\ CanLock("enabled")
    /\ locks' = Locked("enabled", "command")
    /\ pcC' = "is_enabled_read"
    /\ UNCHANGED <<buffer, enabled, snippets, auto_expander, call, pending, result, last_input, first_enable>>
    /\ UNCHANGED listenerVars
    /\ UNCHANGED typingVars

\* *guard, the guard dropped when is_enabled returns
is_enabled_read ==
    /\ pcC = "is_enabled_read"
    /\ result' = IF enabled THEN "Ok(true)" ELSE "Ok(false)"
    /\ locks' = Unlocked("enabled")
    /\ pcC' = "cmd_return"
    /\ UNCHANGED <<buffer, enabled, snippets, auto_expander, call, pending, last_input, first_enable>>
    /\ UNCHANGED listenerVars
    /\ UNCHANGED typingVars

\* Ok(()) or Ok(exp.is_enabled()); the expander guard is dropped
cmd_return ==
    /\ pcC = "cmd_return"
    /\ result' = IF call.cmd = "is_enabled" THEN result ELSE "Ok"
    /\ locks' = Unlocked("auto_expander")
    /\ pcC' = "idle"
    /\ first_enable' = IF call.cmd = "enable" /\ first_enable = "written"
                       THEN "returned" ELSE first_enable
    /\ UNCHANGED <<buffer, enabled, snippets, auto_expander, call, pending, last_input>>
    /\ UNCHANGED listenerVars
    /\ UNCHANGED typingVars

\* the length check left out
LengthMismatchNever(ks, ts) == FALSE

\* if keywords.len() != texts.len() { return Err(..) }
LengthMismatch(ks, ts) == Len(ks) # Len(ts)

\* update_snippets_map up to the call of SnippetMap::update
update_snippets_map(ks, ts) ==
    /\ pcC = "idle"
    /\ call' = Call("update", ks, ts)
    /\ IF LengthMismatch(ks, ts)
       THEN /\ result' = "Err"
            /\ pcC' = "idle"
            /\ pending' = << >>
       ELSE /\ result' = "pending"
            /\ pcC' = "update_lock"
            /\ pending' = Zip(ks, ts)
    /\ UNCHANGED <<buffer, enabled, snippets, auto_expander, locks, last_input, first_enable>>
    /\ UNCHANGED listenerVars
    /\ UNCHANGED typingVars

\* SnippetMap::update: let mut map = self.snippets.lock().unwrap();
update_lock ==
    /\ pcC = "update_lock"
    /\ CanLock("snippets")
    /\ locks' = Locked("snippets", "command")
    /\ pcC' = "update_clear"
    /\ UNCHANGED <<buffer, enabled, snippets, auto_expander, call, pending, result, last_input, first_enable>>
    /\ UNCHANGED listenerVars
    /\ UNCHANGED typingVars

\* the clear left out: update merges into the old map
ClearedNot(m) == m

\* map.clear();
Cleared(m) == EmptyMap

update_clear ==
    /\ pcC = "update_clear"
    /\ snippets' = Cleared(snippets)
    /\ pcC' = "update_insert"
    /\ UNCHANGED <<buffer, enabled, auto_expander, locks, call, pending, result, last_input, first_enable>>
    /\ UNCHANGED listenerVars
    /\ UNCHANGED typingVars

\* for (keyword, text) in snippets { map.insert(keyword, text); }
update_insert ==
    /\ pcC = "update_insert"
    /\ pending # << >>
    /\ snippets' = Insert(snippets, Head(pending)[1], Head(pending)[2])
    /\ pending' = Tail(pending)
    /\ UNCHANGED <<buffer, enabled, auto_expander, locks, pcC, call, result, last_input, first_enable>>
    /\ UNCHANGED listenerVars
    /\ UNCHANGED typingVars

\* the end of update, where the map guard is dropped, and Ok(())
update_return ==
    /\ pcC = "update_insert"
    /\ pending = << >>
    /\ locks' = Unlocked("snippets")
    /\ result' = "Ok"
    /\ last_input' = <<call.keywords, call.texts>>
    /\ pcC' = "idle"
    /\ UNCHANGED <<buffer, enabled, snippets, auto_expander, call, pending, first_enable>>
    /\ UNCHANGED listenerVars
    /\ UNCHANGED typingVars

Command ==
    \/ enable_auto_expansion
    \/ disable_auto_expansion
    \/ is_auto_expansion_enabled
    \/ cmd_lock_expander
    \/ set_enabled_lock
    \/ set_enabled_write
    \/ is_enabled_lock
    \/ is_enabled_read
    \/ cmd_return
    \/ \E inp \in UpdateInputs : update_snippets_map(inp[1], inp[2])
    \/ update_lock
    \/ update_clear
    \/ update_insert
    \/ update_return

----------------------------------------------------------------------------
(* Specifications *)

Next == Listener \/ Command

Spec == Init /\ [][Next]_vars

\* The expander after update_snippets_map(["b"], ["bye"]),
\* enable_auto_expansion and BufferLimit - 2 character key presses, KeyB and
\* KeyR in turn: two pushes short of a full buffer.  From there the listener
\* runs alone, the front end sending no further command.
Prefill == [i \in 1..(BufferLimit - 2) |-> IF i % 2 = 1 THEN "b" ELSE "r"]

InitFull ==
    /\ buffer = Prefill
    /\ enabled = TRUE
    /\ snippets = Insert(EmptyMap, <<"b">>, "bye")
    /\ auto_expander = "Some"
    /\ locks = [l \in LockNames |-> "free"]
    /\ pcL = "listen"
    /\ event = [type |-> "KeyPress", key |-> "KeyR"]
    /\ keyword = << >>
    /\ expansion = None
    /\ erase_i = 0
    /\ emitted = << >>
    /\ handled = "char"
    /\ buffer_at_enter = Pop(Prefill)
    /\ flag_read = TRUE
    /\ map_read = EmptyMap
    /\ hist = Prefill
    /\ evict = "none"
    /\ keys_left = MaxTyped
    /\ pcC = "idle"
    /\ call = Call("enable", << >>, << >>)
    /\ pending = << >>
    /\ result = "Ok"
    /\ last_input = << << <<"b">> >>, << "bye" >> >>
    /\ first_enable = "returned"

SpecFull == InitFull /\ [][Listener]_vars

\* A second set of inputs, for the properties that turn on which keys are
\* typed and how keywords are stored: a letter key, the minus key, a shift
\* key (which key_to_char does not map: shift + b still appends "b"), one
\* word boundary and backspace; and a map with the keyword b, one with an
\* upper-case keyword and a keyword padded with a blank, and the empty map.
FewEvents == [type : {"KeyPress"}, key : {"KeyB", "Minus", "ShiftLeft", "Space", "Backspace"}]

FewInputs ==
    { << << >>, << >> >>,
      << << <<"b">> >>, << "bye" >> >>,
      << << <<"B">>, <<" ", "b">> >>, << "BYE", "padded" >> >> }

\* the steps of the callback once rdev has called it
ListenerStep ==
    \/ cb_lock_enabled
    \/ cb_read_enabled
    \/ cb_lock_buffer
    \/ cb_other_key
    \/ cb_backspace
    \/ cb_word_boundary
    \/ cb_get_lock
    \/ cb_get_read
    \/ cb_enigo_new
    \/ cb_erase
    \/ cb_text
    \/ cb_clear

\* the steps of a command once the front end has invoked it
CommandStep ==
    \/ cmd_lock_expander
    \/ set_enabled_lock
    \/ set_enabled_write
    \/ is_enabled_lock
    \/ is_enabled_read
    \/ cmd_return
    \/ update_lock
    \/ update_clear
    \/ update_insert
    \/ update_return

NextFew ==
    \/ \E e \in FewEvents : cb_enter(e)
    \/ ListenerStep
    \/ enable_auto_expansion
    \/ disable_auto_expansion
    \/ is_auto_expansion_enabled
    \/ \E inp \in FewInputs : update_snippets_map(inp[1], inp[2])
    \/ CommandStep

SpecFew == Init /\ [][NextFew]_vars

\* AppState.auto_expander is an Option: run() stores Some(auto_expander),
\* and the commands also answer for None.  Both values are initial states
\* here; with None the commands return without reaching the expander.
InitHandle ==
    /\ auto_expander \in {"Some", "None"}
    /\ buffer = << >>
    /\ enabled = FALSE
    /\ snippets = EmptyMap
    /\ locks = [l \in LockNames |-> "free"]
    /\ pcL = "listen"
    /\ event = NoEvent
    /\ keyword = << >>
    /\ expansion = None
    /\ erase_i = 0
    /\ emitted = << >>
    /\ handled = "none"
    /\ buffer_at_enter = << >>
    /\ flag_read = FALSE
    /\ map_read = EmptyMap
    /\ hist = << >>
    /\ evict = "none"
    /\ keys_left = MaxTyped
    /\ pcC = "idle"
    /\ call = NoCall
    /\ pending = << >>
    /\ result = "none"
    /\ last_input = << << >>, << >> >>
    /\ first_enable = "none"

SpecHandle == InitHandle /\ [][NextFew]_vars

\* Both threads are scheduled, and a thread that waits for a mutex gets it
\* when the mutex keeps being released: a started handler and a started
\* command take their next step, strongly fair because a lock step is
\* disabled while the other thread holds the mutex.  Nothing obliges rdev
\* to deliver an event or the front end to invoke a command.
SpecLive == SpecFew /\ SF_vars(ListenerStep) /\ SF_vars(CommandStep)

----------------------------------------------------------------------------
(* Vocabulary of the properties *)

\* the handler of the last event has returned
Returned == pcL = "listen" /\ handled # "none"

\* the last event was a word-boundary key press that passed the enabled check
BoundaryDone ==
    /\ Returned
    /\ flag_read
    /\ event.type = "KeyPress"
    /\ IsWordBoundary(event.key)

\* ... and its lookup found the trimmed buffer among the keys of the map
Found == BoundaryDone /\ Trim(buffer_at_enter) \in DOMAIN map_read

\* the synthetic events that reached the system: the calls that succeeded
Delivered(log) == SelectSeq(log, LAMBDA c : c.ok)

\* the calls made, whatever they returned
Attempts(log) == [i \in 1..Len(log) |-> <<log[i].op, log[i].arg>>]

\* n backspace clicks, then the text
ExpectedAttempts(n, text) ==
    [i \in 1..(n + 1) |-> IF i <= n THEN <<"key", "Backspace/Click">> ELSE <<"text", text>>]

LastN(s, n) == IF Len(s) <= n THEN s ELSE SubSeq(s, Len(s) - n + 1, Len(s))

IsSuffix(s, t) == Len(s) <= Len(t) /\ s = LastN(t, Len(s))

\* the mapping a list of keywords and a list of expansions stand for: each
\* keyword of the list, with the expansion at its last occurrence
LastIndex(ks, k) == CHOOSE i \in 1..Len(ks) : ks[i] = k /\ \A j \in 1..Len(ks) : ks[j] = k => j <= i

RefMap(ks, ts) == [k \in { ks[i] : i \in 1..Len(ks) } |-> ts[LastIndex(ks, k)]]

\* the complete map of the last completed update (the empty map before any)
Committed == RefMap(last_input[1], last_input[2])

\* the step in which the handler reads the flag
FlagReadStep == pcL = "read_enabled" /\ pcL' # "read_enabled"

\* the step in which the handler's lookup reads the map
LookupStep == pcL = "get_read" /\ pcL' # "get_read"

\* no command is running, and the last one was cmd and returned res
Completed(cmd, res) == pcC = "idle" /\ call.cmd = cmd /\ result = res

\* the keys of a-z, 0-9, - and =
CharKeys ==
    { "KeyA", "KeyB", "KeyC", "KeyD", "KeyE", "KeyF", "KeyG", "KeyH", "KeyI",
      "KeyJ", "KeyK", "KeyL", "KeyM", "KeyN", "KeyO", "KeyP", "KeyQ", "KeyR",
      "KeyS", "KeyT", "KeyU", "KeyV", "KeyW", "KeyX", "KeyY", "KeyZ",
      "Num0", "Num1", "Num2", "Num3", "Num4", "Num5", "Num6", "Num7", "Num8",
      "Num9", "Minus", "Equal" }

\* the characters a-z, 0-9, - and =
Alphabet ==
    { "a", "b", "c", "d", "e", "f", "g", "h", "i", "j", "k", "l", "m", "n", "o",
      "p", "q", "r", "s", "t", "u", "v", "w", "x", "y", "z",
      "0", "1", "2", "3", "4", "5", "6", "7", "8", "9", "-", "=" }

\* a step of one of the commands cmds, its invocation included
CommandStepOf(cmds) ==
    /\ call'.cmd \in cmds
    /\ <<pcC, call, result>>' # <<pcC, call, result>>

----------------------------------------------------------------------------
(* C1 *)

\* C1: when the handler of a word-boundary key press (space, return, tab)
\* that passed the enabled check has returned, the buffer is empty, whether
\* or not the keyword matched and whatever became of the injection.
C1_BoundaryLeavesBufferEmpty == BoundaryDone => buffer = << >>

----------------------------------------------------------------------------
(* C2 *)

\* the character key press handled last found the buffer full
EvictedNow ==
    /\ Returned
    /\ handled = "char"
    /\ Len(buffer_at_enter) = BufferLimit

\* C2 as stated: the buffer never holds more than 100 characters and is
\* the last 100 of the characters appended since the last clear, as edited
\* by erase-last.
C2_BufferIsLastHundred ==
    /\ Len(buffer) <= BufferLimit
    /\ buffer = LastN(hist, BufferLimit)

\* C2 as amended: the buffer never holds more than 100 characters; a
\* character key handled on a buffer of 100 characters drops exactly the
\* oldest and appends the new one at the end (on a shorter buffer it only
\* appends); the buffer is always a suffix of the characters appended since
\* the last clear as edited by erase-last, and is the last 100 of them as
\* long as no erase-last has followed an eviction.
C2_BufferBoundedFifo ==
    /\ Len(buffer) <= BufferLimit
    /\ (Returned /\ handled = "char") =>
          buffer = IF Len(buffer_at_enter) = BufferLimit
                   THEN Append(Tail(buffer_at_enter), key_to_char(event.key)[1])
                   ELSE Append(buffer_at_enter, key_to_char(event.key)[1])
    /\ IsSuffix(buffer, hist)
    /\ evict # "stale" => buffer = LastN(hist, BufferLimit)

\* a character key has just been handled on a full buffer, which is full again
C2_Witness ==
    /\ EvictedNow
    /\ Len(buffer) = BufferLimit
    /\ Len(hist) = BufferLimit + 1
    /\ buffer[1] = buffer_at_enter[2]

----------------------------------------------------------------------------
(* C3 *)

\* C3: when the handler of an event (of any kind) that read the enabled
\* flag as false has returned, the buffer is what it was when the handler
\* was entered and no injector call was made; this stays so when the flag
\* is set again afterwards.
C3_DisabledDropsEvent ==
    (Returned /\ ~flag_read) => (buffer = buffer_at_enter /\ emitted = << >>)

\* a KeyB press was dropped while disabled and the expander is enabled
\* again: the buffer still holds what was typed before the disable
C3_Witness ==
    /\ Returned
    /\ ~flag_read
    /\ event = [type |-> "KeyPress", key |-> "KeyB"]
    /\ enabled
    /\ pcC = "idle"
    /\ buffer = <<"b", "r">>
    /\ buffer_at_enter = <<"b", "r">>
    /\ emitted = << >>

----------------------------------------------------------------------------
(* C4 *)

\* all the injector calls of the event succeeded
AllDelivered == \A i \in 1..Len(emitted) : emitted[i].ok

\* the events of a complete replacement: one backspace click for each
\* character of the trimmed buffer, then the stored expansion typed
Replacement ==
    [i \in 1..(Len(Trim(buffer_at_enter)) + 1) |->
        IF i <= Len(Trim(buffer_at_enter))
        THEN InjectorCall("key", "Backspace/Click", TRUE)
        ELSE InjectorCall("text", map_read[Trim(buffer_at_enter)], TRUE)]

----------------------------------------------------------------------------
(* C5 *)

\* what get(k) must return after update(zip(ks, ts))
LastWins(ks, ts, k) ==
    IF \E i \in 1..Len(ks) : ks[i] = k THEN Some(ts[LastIndex(ks, k)]) ELSE None

\* keywords to look up: the two the front end sends and two it never sends
Lookups == { <<"b", "r", "b">>, <<"b">>, <<"r">>, << >> }

\* C5: whenever no update is rewriting the map, get(k) returns, for every
\* keyword k, the expansion at the last occurrence of k in the input of the
\* last completed update, and no match if k is not in that input (before
\* any update and after an update with empty input: for no k).
C5_MapIsLastInput ==
    locks["snippets"] # "command" =>
        /\ \A k \in Lookups : Get(snippets, k) = LastWins(last_input[1], last_input[2], k)
        /\ DOMAIN snippets \subseteq Lookups

\* update([brb, brb], [be right back, bye]) has returned: the later
\* expansion is stored, and the keyword b of an earlier update is gone
C5_Witness ==
    /\ pcC = "idle"
    /\ call.cmd = "update"
    /\ result = "Ok"
    /\ last_input = << << <<"b", "r", "b">>, <<"b", "r", "b">> >>, << "be right back", "bye" >> >>
    /\ Get(snippets, <<"b", "r", "b">>) = Some("bye")
    /\ Get(snippets, <<"b">>) = None
    /\ Get(map_read, <<"b">>) = Some("bye")

----------------------------------------------------------------------------
(* C6 *)

\* a step in which update_snippets_map is invoked
UpdateInvoked ==
    /\ pcC = "idle"
    /\ call'.cmd = "update"
    /\ <<pcC', call', result'>> # <<pcC, call, result>>

\* C6: an invocation of update_snippets_map with lists of different lengths
\* returns an error in that step and leaves the map, the buffer and the
\* flag as they were; one with lists of equal length goes on to
\* SnippetMap::update, and when it has returned success the map is the
\* pairwise zip of the two lists.
C6_UpdateChecksLengths ==
    /\ [][UpdateInvoked =>
            IF Len(call'.keywords) # Len(call'.texts)
            THEN /\ result' = "Err"
                 /\ pcC' = "idle"
                 /\ UNCHANGED <<snippets, buffer, enabled>>
            ELSE /\ pcC' = "update_lock"
                 /\ result' = "pending"]_vars
    /\ []((pcC = "idle" /\ call.cmd = "update") =>
            IF Len(call.keywords) # Len(call.texts)
            THEN result = "Err"
            ELSE result = "Ok" /\ snippets = RefMap(call.keywords, call.texts))

\* update([brb, b], [bye]) has returned an error and the map of the update
\* before it is still there
C6_Witness ==
    /\ pcC = "idle"
    /\ call = Call("update", << <<"b", "r", "b">>, <<"b">> >>, << "bye" >>)
    /\ result = "Err"
    /\ snippets = Insert(EmptyMap, <<"b", "r", "b">>, "be right back")

----------------------------------------------------------------------------
(* C7 *)

\* C7: whenever the listener's lookup holds the map, the map is the
\* complete map of the last completed update: never the cleared or partly
\* refilled map of an update in progress.
C7_LookupSeesCompleteMap ==
    locks["snippets"] = "listener" => snippets = Committed

\* the lookup holds the map, complete with two entries, while an update
\* with other entries waits for the mutex
C7_Witness ==
    /\ locks["snippets"] = "listener"
    /\ pcC = "update_lock"
    /\ Cardinality(DOMAIN snippets) = 2
    /\ pending # << >>
    /\ RefMap(call.keywords, call.texts) # snippets

----------------------------------------------------------------------------
(* C8 *)

\* C8 as stated: no thread ever holds two of the four mutexes.
C8_NoTwoLocksHeld == \A t \in Threads : Cardinality(HeldBy(t)) <= 1

\* C8 as amended: a thread holds two mutexes only in two nestings: the
\* listener takes the map mutex (in SnippetMap::get) while it holds the
\* buffer mutex, and a command takes the enabled mutex (in set_enabled or
\* is_enabled) while it holds the expander mutex.  No thread holds three,
\* the listener has released the enabled mutex before it takes the buffer
\* mutex, update_snippets_map holds the map mutex alone, and a thread that
\* waits for a mutex holds at most the outer mutex of its nesting.
C8_LocksNestInOrder ==
    /\ HeldBy("listener") \in { {}, {"enabled"}, {"buffer"}, {"buffer", "snippets"} }
    /\ HeldBy("command") \in { {}, {"auto_expander"}, {"auto_expander", "enabled"}, {"snippets"} }
    /\ pcL \in {"check_enabled", "lock_buffer"} => HeldBy("listener") = {}
    /\ pcL = "get_lock" => HeldBy("listener") = {"buffer"}
    /\ pcC \in {"lock_expander", "update_lock"} => HeldBy("command") = {}
    /\ pcC \in {"set_enabled_lock", "is_enabled_lock"} => HeldBy("command") = {"auto_expander"}

\* both nestings at once
C8_Witness ==
    /\ HeldBy("listener") = {"buffer", "snippets"}
    /\ HeldBy("command") = {"auto_expander", "enabled"}

----------------------------------------------------------------------------
(* C9 *)

\* C9: when a word-boundary event matched a keyword and the injector
\* handle could not be created, no injector call was made and the buffer is
\* empty once the handler has returned.
C9_AbandonedStillClears ==
    (Found /\ handled = "abandoned") => (emitted = << >> /\ buffer = << >>)

----------------------------------------------------------------------------
(* C10 *)

\* C10: when a word-boundary event matched a keyword and the injector
\* handle was created, the injector was called exactly len(trimmed buffer)
\* times for a backspace click and then once for the text, whichever of
\* these calls failed, and the buffer is empty once the handler has returned.
C10_EveryCallAttemptedOnce ==
    (Found /\ handled # "abandoned") =>
        /\ Attempts(emitted) =
              ExpectedAttempts(Len(Trim(buffer_at_enter)), map_read[Trim(buffer_at_enter)])
        /\ buffer = << >>

\* keyword brb: the first backspace and the text call failed, and still
\* three backspaces and the text were attempted
C10_Witness ==
    /\ Found
    /\ handled = "expanded"
    /\ buffer_at_enter = <<"b", "r", "b">>
    /\ Len(emitted) = 4
    /\ ~emitted[1].ok
    /\ emitted[2].ok
    /\ ~emitted[4].ok
    /\ buffer = << >>

----------------------------------------------------------------------------
(* C11 *)

\* C11: an event whose handler reads the flag after disable_auto_expansion
\* has returned, and before any later command is invoked, reads false and
\* returns at once: the buffer is what it was at entry and no injector call
\* is made.  After enable_auto_expansion has returned it reads true and is
\* processed (a key press goes on to the buffer).  After
\* is_auto_expansion_enabled it reads the value that command returned.  A
\* lookup that reads the map after update_snippets_map has returned success
\* reads the map of that update's lists, and any lookup reads the map of the
\* last completed update.
C11_EventSeesCompletedCommand ==
    [][ /\ (FlagReadStep /\ Completed("disable", "Ok")) =>
              /\ ~flag_read'
              /\ pcL' = "listen"
              /\ handled' = "dropped"
              /\ buffer' = buffer_at_enter
              /\ emitted' = << >>
        /\ (FlagReadStep /\ Completed("enable", "Ok")) =>
              /\ flag_read'
              /\ handled' # "dropped"
              /\ event.type = "KeyPress" => pcL' = "lock_buffer"
        /\ (FlagReadStep /\ Completed("is_enabled", "Ok(true)")) => flag_read'
        /\ (FlagReadStep /\ Completed("is_enabled", "Ok(false)")) => ~flag_read'
        /\ (LookupStep /\ Completed("update", "Ok")) =>
              /\ map_read' = RefMap(call.keywords, call.texts)
              /\ expansion' = LastWins(call.keywords, call.texts, keyword)
        /\ LookupStep => map_read' = Committed
      ]_vars

\* update([brb, brb], [be right back, bye]) has returned and the lookup of
\* the next space found brb -> bye
C11_Witness ==
    /\ Completed("update", "Ok")
    /\ call.keywords = << <<"b", "r", "b">>, <<"b", "r", "b">> >>
    /\ pcL = "enigo_new"
    /\ flag_read
    /\ keyword = <<"b", "r", "b">>
    /\ map_read = snippets
    /\ expansion = Some("bye")

----------------------------------------------------------------------------
(* C12 *)

\* C12: without an expander handle, no step of enable_auto_expansion,
\* disable_auto_expansion or is_auto_expansion_enabled changes the flag, the
\* buffer, the map or a mutex, enable and disable return an error and
\* is_auto_expansion_enabled returns Ok(false); the flag then stays false
\* and the buffer empty for good.  With the handle, enable and disable
\* return success and is_auto_expansion_enabled returns the flag.
C12_HandleAbsentOrPresent ==
    /\ [][(auto_expander = "None" /\ CommandStepOf({"enable", "disable", "is_enabled"})) =>
            UNCHANGED <<enabled, buffer, snippets, locks>>]_vars
    /\ []((pcC = "idle" /\ call.cmd \in {"enable", "disable"}) =>
            result = IF auto_expander = "None" THEN "Err" ELSE "Ok")
    /\ []((pcC = "idle" /\ call.cmd = "is_enabled") =>
            result = IF auto_expander = "Some" /\ enabled THEN "Ok(true)" ELSE "Ok(false)")
    /\ [](auto_expander = "None" => (~enabled /\ buffer = << >>))

\* no handle: enable has returned an error, after an update that went through
C12_Witness ==
    /\ auto_expander = "None"
    /\ Completed("enable", "Err")
    /\ snippets = Insert(EmptyMap, <<"b">>, "bye")
    /\ ~enabled

----------------------------------------------------------------------------
(* C13 *)

\* C13: when the handler of a backspace key press that passed the enabled
\* check has returned, the buffer is the buffer at entry without its last
\* character (empty if it was empty) and no injector call was made; and a
\* word-boundary key press handled on the buffer br with the map
\* {brb -> ...} looks up br, finds nothing and makes no injector call.
C13_BackspaceRemovesLast ==
    /\ (Returned /\ flag_read /\ event = [type |-> "KeyPress", key |-> "Backspace"]) =>
          /\ handled = "erase_last"
          /\ emitted = << >>
          /\ IF buffer_at_enter = << >>
             THEN buffer = << >>
             ELSE buffer = SubSeq(buffer_at_enter, 1, Len(buffer_at_enter) - 1)
    /\ (BoundaryDone /\ buffer_at_enter = <<"b", "r">> /\ DOMAIN map_read = {<<"b", "r", "b">>}) =>
          /\ keyword = <<"b", "r">>
          /\ expansion = None
          /\ handled = "no_match"
          /\ emitted = << >>

\* three characters pushed, one popped, then a word boundary: the lookup
\* of br in a map with brb has found nothing
C13_Witness ==
    /\ pcL = "clear"
    /\ flag_read
    /\ keys_left = MaxTyped - 3
    /\ buffer = <<"b", "r">>
    /\ keyword = <<"b", "r">>
    /\ <<"b", "r", "b">> \in DOMAIN map_read
    /\ expansion = None
    /\ emitted = << >>

----------------------------------------------------------------------------
(* C14 *)

\* an event that is no key press, or a press of a key that is neither a
\* character key, nor a word boundary, nor backspace
Ignorable(e) ==
    \/ e.type # "KeyPress"
    \/ e.key \notin CharKeys \cup {"Space", "Return", "Tab", "Backspace"}

\* C14: no step of the handler of such an event changes the buffer, the flag
\* or the map or makes an injector call, and when the handler has returned
\* after passing the enabled check the buffer is what it was at entry.
C14_IgnoredEventChangesNothing ==
    /\ [][(pcL' # pcL /\ Ignorable(event')) =>
            (UNCHANGED <<buffer, enabled, snippets>> /\ emitted' = << >>)]_vars
    /\ []((Returned /\ flag_read /\ Ignorable(event)) =>
            (handled = "ignored" /\ buffer = buffer_at_enter /\ emitted = << >>))

\* b, then the left arrow while enabled: the buffer still holds b
C14_Witness ==
    /\ Returned
    /\ flag_read
    /\ event = [type |-> "KeyPress", key |-> "LeftArrow"]
    /\ handled = "ignored"
    /\ keys_left = MaxTyped - 1
    /\ buffer = <<"b">>
    /\ <<"b", "r", "b">> \in DOMAIN snippets

----------------------------------------------------------------------------
(* C15 *)

\* C15: no step of enable_auto_expansion or disable_auto_expansion changes
\* the buffer or the map; the flag changes only in the write of
\* set_enabled, which stores true for enable and false for disable.
C15_EnableDisableTouchOnlyFlag ==
    [][CommandStepOf({"enable", "disable"}) =>
          /\ UNCHANGED <<buffer, snippets>>
          /\ enabled' # enabled => pcC = "set_enabled_write"
          /\ pcC = "set_enabled_write" => enabled' = (call.cmd = "enable")]_vars

\* b and r typed, a space dropped while disabled, enable has returned: the
\* buffer still holds br
C15_Witness ==
    /\ Completed("enable", "Ok")
    /\ enabled
    /\ Returned
    /\ ~flag_read
    /\ event = [type |-> "KeyPress", key |-> "Space"]
    /\ keys_left = MaxTyped - 2
    /\ buffer = <<"b", "r">>

----------------------------------------------------------------------------
(* C16 *)

\* C16: an injector call is made only in the erase-and-type steps of a
\* word-boundary key press that passed the enabled check, and only when the
\* trimmed buffer is itself one of the keys of the map the lookup read, the
\* text typed being the expansion stored under it; a word-boundary event
\* whose trimmed buffer is no key of that map makes no injector call.
C16_InjectionOnlyOnExactMatch ==
    /\ [][(emitted' # emitted /\ emitted' # << >>) =>
            /\ pcL = "erase"
            /\ flag_read
            /\ event.type = "KeyPress"
            /\ IsWordBoundary(event.key)
            /\ keyword = Trim(buffer)
            /\ keyword \in DOMAIN map_read
            /\ expansion = Some(map_read[keyword])]_vars
    /\ [](emitted # << >> =>
            /\ IsWordBoundary(event.key)
            /\ Trim(buffer_at_enter) \in DOMAIN map_read
            /\ \A i \in 1..Len(emitted) :
                  emitted[i].op = "text" => emitted[i].arg = map_read[Trim(buffer_at_enter)])
    /\ []((BoundaryDone /\ Trim(buffer_at_enter) \notin DOMAIN map_read) => emitted = << >>)

\* b, space on a map that stores B and " b": no match, no injector call
C16_Witness ==
    /\ BoundaryDone
    /\ buffer_at_enter = <<"b">>
    /\ DOMAIN map_read = { <<"B">>, <<" ", "b">> }
    /\ handled = "no_match"
    /\ emitted = << >>

----------------------------------------------------------------------------
(* C17 *)

\* the character of the character keys typed here
BaseChar(key) ==
    CASE key = "KeyB" -> "b"
      [] key = "KeyR" -> "r"
      [] key = "Minus" -> "-"

InAlphabet(s) == \A i \in 1..Len(s) : s[i] \in Alphabet

\* C17: the buffer holds only characters of a-z, 0-9, - and =, so trimming
\* it changes nothing; a character key press handled below the limit
\* appends its own character and nothing else, any other key press leaves
\* the buffer no longer than it was; and a lookup that finds an expansion
\* looked up a keyword of those characters only.
C17_BufferAlphabet ==
    /\ InAlphabet(buffer)
    /\ Trim(buffer) = buffer
    /\ (Returned /\ flag_read /\ event.type = "KeyPress" /\ event.key \in CharKeys
            /\ Len(buffer_at_enter) < BufferLimit) =>
          buffer = Append(buffer_at_enter, BaseChar(event.key))
    /\ (Returned /\ event.key \notin CharKeys) => Len(buffer) <= Len(buffer_at_enter)
    /\ expansion # None => (InAlphabet(keyword) /\ keyword # << >>)

\* the minus key after b: the buffer holds b-, and the stored keyword B is
\* in the map
C17_Witness ==
    /\ Returned
    /\ handled = "char"
    /\ event.key = "Minus"
    /\ buffer = <<"b", "-">>
    /\ <<"B">> \in DOMAIN snippets

----------------------------------------------------------------------------
(* C18 *)

\* the mutex a thread is waiting for, if any
WaitsFor(t) ==
    IF t = "listener"
    THEN CASE pcL = "check_enabled" -> {"enabled"}
           [] pcL = "lock_buffer" -> {"buffer"}
           [] pcL = "get_lock" -> {"snippets"}
           [] OTHER -> {}
    ELSE CASE pcC = "lock_expander" -> {"auto_expander"}
           [] pcC \in {"set_enabled_lock", "is_enabled_lock"} -> {"enabled"}
           [] pcC = "update_lock" -> {"snippets"}
           [] OTHER -> {}

\* t waits for a mutex that u holds
Blocks(u, t) == \E l \in WaitsFor(t) : locks[l] = u

----------------------------------------------------------------------------
(* C19 *)

\* no key event has changed the buffer or called the injector, and
\* is_auto_expansion_enabled has returned false
Inert ==
    /\ buffer = << >>
    /\ emitted = << >>
    /\ (pcC = "idle" /\ call.cmd = "is_enabled") => result = "Ok(false)"

\* C19 as stated: as long as no enable_auto_expansion has returned, no key
\* event has changed the buffer or called the injector and
\* is_auto_expansion_enabled returns false.
C19_InertUntilEnableReturns == first_enable # "returned" => Inert

\* C19 as amended: before any command the map is empty; as long as no
\* enable_auto_expansion has set the flag, the flag is false, every event
\* handled was dropped at the check, no key event has changed the buffer or
\* called the injector and is_auto_expansion_enabled returns false.  The
\* flag is set inside the command: between that write and the return of
\* the first enable_auto_expansion events are already processed.
C19_InertUntilFlagSet ==
    /\ (call = NoCall) => (snippets = EmptyMap /\ first_enable = "none")
    /\ first_enable = "none" =>
          /\ ~enabled
          /\ ~flag_read
          /\ handled \in {"none", "running", "dropped"}
          /\ Inert
    /\ first_enable = "written" => (pcC = "cmd_return" /\ call.cmd = "enable")

\* no enable yet: an update went through, a KeyB press was dropped and
\* is_auto_expansion_enabled has returned false
C19_Witness ==
    /\ first_enable = "none"
    /\ Completed("is_enabled", "Ok(false)")
    /\ snippets = Insert(EmptyMap, <<"b">>, "bye")
    /\ Returned
    /\ handled = "dropped"
    /\ event = [type |-> "KeyPress", key |-> "KeyB"]
    /\ buffer = << >>

----------------------------------------------------------------------------
(* C20 *)

\* C20: while the flag is false no event passes the check: a handler that
\* reads the flag then returns at once, the buffer untouched and no
\* injector call made.  So a step that changes the buffer or calls the
\* injector while the flag is false belongs to the handler that read the
\* flag as true before and is past the check; the listener runs one handler
\* at a time, so this is one event at most, and a disable that has returned
\* does not stop it.
C20_OnlyEventInFlightActsWhileDisabled ==
    /\ [][(FlagReadStep /\ ~enabled) =>
            /\ pcL' = "listen"
            /\ handled' = "dropped"
            /\ buffer' = buffer
            /\ emitted' = << >>]_vars
    /\ [][(~enabled /\ ~enabled' /\ (buffer' # buffer \/ Len(emitted') > Len(emitted))) =>
            /\ flag_read
            /\ handled = "running"
            /\ pcL \in {"match_key", "erase", "clear"}
            /\ event' = event]_vars
    /\ []((~enabled /\ pcL \notin {"listen", "check_enabled", "read_enabled"}) => flag_read)

\* disable_auto_expansion has returned while a word-boundary event that
\* found its keyword had not yet called the injector: the erase and type
\* calls and the clear are still to come
C20_Witness ==
    /\ Completed("disable", "Ok")
    /\ ~enabled
    /\ flag_read
    /\ pcL = "erase"
    /\ erase_i = 0
    /\ emitted = << >>
    /\ expansion = Some("bye")
    /\ buffer = <<"b">>

====
